---- MODULE Spec2Model ----
(***************************************************************************)
(* Model of the CineMatch recommendation engine                            *)
(* (backend/app/services/recommender.py), of the process that serves it    *)
(* (backend/app/main.py, backend/app/routes/movie_routes.py) and of the    *)
(* catalog it reads (backend/app/models.py, movie_service.py).             *)
(*                                                                         *)
(* Two specifications share the engine's operators:                        *)
(*   Spec        the served program: the lifespan start-up, then HTTP      *)
(*               requests run one at a time on the event loop, the build   *)
(*               taken statement by statement;                             *)
(*   SpecEngine  the MovieRecommender object driven method by method, in   *)
(*               any order, each call atomic.                              *)
(*                                                                         *)
(* Text is a sequence of whitespace-delimited tokens, a token a sequence   *)
(* of the atoms that were concatenated into it.  Titles are sequences of   *)
(* characters.  Catalog indices are 1-based (pandas index i is i + 1).     *)
(* TF-IDF weights and similarities are fixed-point integers.               *)
(***************************************************************************)
EXTENDS Integers, Sequences, FiniteSets, TLC

\* db                    the movies table, in primary-key order
\* df .. cosine_sim      the fields of the global recommender
\* pc, req, resp         per handler (0: lifespan; 1..: HTTP requests) its
\*                       position, its request and its response
\* arrivedDuringBuild    history: the request arrived while a build ran
\* atBuildStart          history: the engine as the running build found it
\* last                  SpecEngine: the last call on the object
VARIABLES db, df, vectorizer, tfidf_matrix, cosine_sim, pc, req, resp,
          arrivedDuringBuild, atBuildStart, last

vars == <<db, df, vectorizer, tfidf_matrix, cosine_sim, pc, req, resp,
          arrivedDuringBuild, atBuildStart, last>>

engineVars == <<df, vectorizer, tfidf_matrix, cosine_sim>>

(* ------------------------------ bounds -------------------------------- *)

\* longest catalog
MaxMovies == 3
\* largest top_n / limit a caller passes
MaxTopN == 2
\* HTTP requests the served program receives
MaxRequests == 2

(* ------------------------- program constants -------------------------- *)

MaxFeatures == 5000
MinVotes == 100
RouteLimit == 20

(* ------------------------------ catalog ------------------------------- *)

\* Movie.to_dict(): the columns the engine reads.  A director of None and
\* an overview of None or "" are the empty value of their type.
Movie(title, genres, overview, actors, director, popularity, vote_average, vote_count) ==
    [title |-> title, genres |-> genres, overview |-> overview,
     actors |-> actors, director |-> director, popularity |-> popularity,
     vote_average |-> vote_average, vote_count |-> vote_count]

\* "Ba": one genre, no cast, just the votes top-rated asks for
MovieBa == Movie(<<"B", "a">>, <<"action">>, <<"hero", "city">>,
                 <<>>, "", 80, 7, 100)
\* "Bab": two genres, cast and director; rated as "Ba" is, on more votes
MovieBab == Movie(<<"B", "a", "b">>, <<"action", "scifi">>,
                  <<"hero", "galaxy">>, <<"keaton">>, "burton", 50, 7, 200)
\* "ab": a document of stop words only; as popular as "Ba"; the top
\* average rating, on few votes
MovieAb == Movie(<<"a", "b">>, <<>>, <<"the">>, <<>>, "", 80, 9, 50)

MoviePool == {MovieBa, MovieBab, MovieAb}

RECURSIVE SeqsUpTo(_, _)
SeqsUpTo(S, n) ==
    IF n = 0 THEN {<<>>}
    ELSE LET shorter == SeqsUpTo(S, n - 1)
         IN shorter \cup {Append(s, x) : s \in {t \in shorter : Len(t) = n - 1}, x \in S}

Catalogs == SeqsUpTo(MoviePool, MaxMovies)

\* the titles a caller asks for: an exact title in another case, a proper
\* substring, a pattern with a regex wildcard, an unbalanced parenthesis,
\* and a title of no movie
Queries == {<<"b", "a">>, <<"a", "b">>, <<"b", ".">>, <<"(">>, <<"x">>}

TopNs == 1..MaxTopN

(* ------------------------------ strings ------------------------------- *)

Min(a, b) == IF a < b THEN a ELSE b

\* str.lower() on one character
LowerChar(c) == CASE c = "A" -> "a" [] c = "B" -> "b" [] OTHER -> c

\* str.lower()
Lower(s) == [i \in 1..Len(s) |-> LowerChar(s[i])]

\* " ".join(list): every element a token of its own
Join(list) == [i \in 1..Len(list) |-> <<list[i]>>]

\* s + t on text: the last token of s and the first of t become one token
StrConcat(s, t) ==
    IF s = <<>> THEN t
    ELSE IF t = <<>> THEN s
    ELSE SubSeq(s, 1, Len(s) - 1) \o <<s[Len(s)] \o t[1]>> \o Tail(t)

\* s * k
RECURSIVE StrRepeat(_, _)
StrRepeat(s, k) == IF k = 0 THEN <<>> ELSE StrConcat(StrRepeat(s, k - 1), s)

\* " ".join(features) on a list of non-empty texts
RECURSIVE JoinTexts(_)
JoinTexts(texts) ==
    IF texts = <<>> THEN <<>> ELSE Head(texts) \o JoinTexts(Tail(texts))

(* --------------------------- feature builder -------------------------- *)

create_content_features(movie) ==
    LET genres == IF movie.genres # <<>>
                  THEN <<StrRepeat(Join(movie.genres), 3)>> ELSE <<>>
        overview == IF movie.overview # <<>>
                    THEN <<Join(movie.overview)>> ELSE <<>>
        actors == IF movie.actors # <<>>
                  THEN <<StrRepeat(Join(movie.actors), 2)>> ELSE <<>>
        director == IF movie.director # ""
                    THEN <<Join(<<movie.director>>)>> ELSE <<>>
    IN JoinTexts(genres \o overview \o actors \o director)

(* ------------------------- vector space indexer ----------------------- *)

\* sklearn's ENGLISH_STOP_WORDS, restricted to the atoms of the pool
StopWords == {"the"}

IsStop(token) == Len(token) = 1 /\ token[1] \in StopWords

\* TfidfVectorizer's analyzer with ngram_range=(1, 2): the stop words are
\* dropped, then every token and every pair of adjacent tokens is a term
Terms(doc) ==
    LET tokens == SelectSeq(doc, LAMBDA t : ~IsStop(t))
    IN [i \in 1..Len(tokens) |-> <<tokens[i]>>]
       \o [i \in 1..(Len(tokens) - 1) |-> <<tokens[i], tokens[i + 1]>>]

Count(seq, x) == Cardinality({i \in DOMAIN seq : seq[i] = x})

RECURSIVE SumFn(_)
SumFn(f) ==
    IF DOMAIN f = {} THEN 0
    ELSE LET x == CHOOSE y \in DOMAIN f : TRUE
         IN f[x] + SumFn([y \in DOMAIN f \ {x} |-> f[y]])

\* max_features: the terms of highest corpus frequency
LimitFeatures(terms, docs) ==
    LET tfs(t) == SumFn([i \in DOMAIN docs |-> Count(Terms(docs[i]), t)])
    IN IF Cardinality(terms) <= MaxFeatures THEN terms
       ELSE CHOOSE kept \in SUBSET terms :
                /\ Cardinality(kept) = MaxFeatures
                /\ \A t \in kept, u \in terms \ kept : tfs(t) >= tfs(u)

Vocabulary(docs) ==
    LimitFeatures(UNION {{Terms(docs[i])[k] : k \in DOMAIN Terms(docs[i])}
                         : i \in DOMAIN docs}, docs)

\* 100 * ln(num / den), rounded
Ln100(num, den) ==
    CASE num = den -> 0
      [] num = 3 /\ den = 2 -> 41
      [] num = 4 /\ den = 2 -> 69
      [] num = 4 /\ den = 3 -> 29
      [] num = 5 /\ den = 2 -> 92
      [] num = 5 /\ den = 3 -> 51
      [] num = 5 /\ den = 4 -> 22
      [] num = 6 /\ den = 2 -> 110
      [] num = 6 /\ den = 3 -> 69
      [] num = 6 /\ den = 4 -> 41
      [] num = 6 /\ den = 5 -> 18

\* smooth idf, in hundredths: ln((1 + n) / (1 + df)) + 1
Idf(n, docFreq) == Ln100(1 + n, 1 + docFreq) + 100

RECURSIVE ISqrtBetween(_, _, _)
ISqrtBetween(n, lo, hi) ==
    IF lo >= hi THEN lo
    ELSE LET mid == (lo + hi + 1) \div 2
         IN IF mid * mid <= n THEN ISqrtBetween(n, mid, hi)
            ELSE ISqrtBetween(n, lo, mid - 1)

\* floor of the square root
ISqrt(n) == ISqrtBetween(n, 0, Min(n, 46340))

\* sklearn.preprocessing.normalize(norm="l2"), entries in thousandths; a
\* row of norm 0 is left as it is
Normalize(row) ==
    LET norm == ISqrt(SumFn([t \in DOMAIN row |-> row[t] * row[t]]))
    IN IF norm = 0 THEN row
       ELSE [t \in DOMAIN row |-> (row[t] * 1000) \div norm]

\* TfidfVectorizer.fit_transform on a corpus whose vocabulary is terms
TfidfRows(docs, terms) ==
    LET termSeqs == [i \in DOMAIN docs |-> Terms(docs[i])]
        tf == [i \in DOMAIN docs |-> [t \in terms |-> Count(termSeqs[i], t)]]
        docFreq == [t \in terms |-> Cardinality({i \in DOMAIN docs : tf[i][t] > 0})]
    IN [i \in DOMAIN docs |->
          Normalize([t \in terms |-> tf[i][t] * Idf(Len(docs), docFreq[t])])]

(* --------------------------- similarity engine ------------------------ *)

Dot(a, b) == SumFn([t \in DOMAIN a |-> a[t] * b[t]])

\* sklearn cosine_similarity(X, X): normalize the rows, then X . X^T
cosine_similarity(X) ==
    LET Xn == [i \in DOMAIN X |-> Normalize(X[i])]
    IN [i \in DOMAIN X |-> [j \in DOMAIN X |-> Dot(Xn[i], Xn[j])]]

(* ------------------------------ the engine ---------------------------- *)

\* A field that is None has isNone set and its other parts empty.
NoFrame == [isNone |-> TRUE, rows |-> <<>>, hasFeatures |-> FALSE,
            content_features |-> <<>>]
NoVectorizer == [isNone |-> TRUE, fitted |-> FALSE, vocabulary |-> {}]
NoMatrix == [isNone |-> TRUE, m |-> <<>>]

\* pd.DataFrame(data): a frame of no rows has no columns
Frame(rows) == [isNone |-> FALSE, rows |-> rows, hasFeatures |-> FALSE,
                content_features |-> <<>>]

\* MovieRecommender.__init__
NewEngine == [df |-> NoFrame, vectorizer |-> NoVectorizer,
              tfidf_matrix |-> NoMatrix, cosine_sim |-> NoMatrix]

Engine == [df |-> df, vectorizer |-> vectorizer,
           tfidf_matrix |-> tfidf_matrix, cosine_sim |-> cosine_sim]

SetEngineInit ==
    /\ df = NoFrame
    /\ vectorizer = NoVectorizer
    /\ tfidf_matrix = NoMatrix
    /\ cosine_sim = NoMatrix

SetEngine(e) ==
    /\ df' = e.df
    /\ vectorizer' = e.vectorizer
    /\ tfidf_matrix' = e.tfidf_matrix
    /\ cosine_sim' = e.cosine_sim

\* an operation's outcome: the engine it leaves, whether it raised, and
\* what it returned; idx is get_recommendations' resolved row (0: none)
Returned(e, items) == [e |-> e, raised |-> FALSE, idx |-> 0, items |-> items]
ReturnedFor(e, idx, items) == [e |-> e, raised |-> FALSE, idx |-> idx, items |-> items]
Raised(e) == [e |-> e, raised |-> TRUE, idx |-> 0, items |-> <<>>]

\* the outcomes of `first` followed, where it did not raise, by `step`
Then(first, step(_)) ==
    UNION {IF o.raised THEN {o} ELSE step(o.e) : o \in first}

load_movies_from_db(e, catalog) == [e EXCEPT !.df = Frame(catalog)]

\* self.df is None or self.df.empty
NeedsLoad(frame) == frame.isNone \/ frame.rows = <<>>

\* lines 59-60
BuildLoad(e, catalog) ==
    {Returned(IF NeedsLoad(e.df) THEN load_movies_from_db(e, catalog) ELSE e, <<>>)}

\* FeatureColumn appending to the column a former build left
FeatureColumnAppending(frame) ==
    [i \in DOMAIN frame.rows |->
        IF frame.hasFeatures
        THEN frame.content_features[i] \o create_content_features(frame.rows[i])
        ELSE create_content_features(frame.rows[i])]

\* the content_features column computed from the frame's rows
FeatureColumn(frame) ==
    [i \in DOMAIN frame.rows |-> create_content_features(frame.rows[i])]

\* lines 63-66.  On a frame of no rows and no columns DataFrame.apply gives
\* an empty result: pandas either stores it as an empty column or refuses
\* the assignment, according to its version.
BuildFeatures(e) ==
    LET stored == Returned([e EXCEPT !.df.hasFeatures = TRUE,
                                     !.df.content_features = FeatureColumn(e.df)],
                           <<>>)
    IN IF e.df.rows = <<>> THEN {stored, Raised(e)} ELSE {stored}

\* lines 69-73
BuildVectorizer(e) ==
    {Returned([e EXCEPT !.vectorizer =
                 [isNone |-> FALSE, fitted |-> FALSE, vocabulary |-> {}]], <<>>)}

\* TfidfVectorizer.fit_transform(docs) and cosine_similarity of its result
Index(docs) ==
    LET terms == Vocabulary(docs)
        X == IF terms = {} THEN <<>> ELSE TfidfRows(docs, terms)
    IN [vocabulary |-> terms, tfidf |-> X, cosine |-> cosine_similarity(X)]

\* the corpora of the bounded catalogs, each indexed once
Corpora == {[i \in DOMAIN c |-> create_content_features(c[i])] : c \in Catalogs}

IndexTable == {[docs |-> d, index |-> Index(d)] : d \in Corpora}

\* fit_transform(docs): the vocabulary and the vector matrix
IndexOf(docs) ==
    IF docs \in Corpora
    THEN (CHOOSE r \in IndexTable : r.docs = docs).index
    ELSE Index(docs)

\* cosine_similarity(X, X)
CosineOf(X) ==
    IF \E r \in IndexTable : r.index.tfidf = X
    THEN (CHOOSE r \in IndexTable : r.index.tfidf = X).index.cosine
    ELSE cosine_similarity(X)

\* line 75: fit_transform raises ValueError("empty vocabulary") when no
\* document holds a term
BuildFit(e) ==
    LET index == IndexOf(e.df.content_features)
    IN IF index.vocabulary = {} THEN {Raised(e)}
       ELSE {Returned([e EXCEPT !.vectorizer.fitted = TRUE,
                                !.vectorizer.vocabulary = index.vocabulary,
                                !.tfidf_matrix = [isNone |-> FALSE, m |-> index.tfidf]],
                      <<>>)}

\* line 78
BuildCosine(e) ==
    {Returned([e EXCEPT !.cosine_sim =
                 [isNone |-> FALSE, m |-> CosineOf(e.tfidf_matrix.m)]],
              <<>>)}

build_similarity_matrix(e, catalog) ==
    Then(Then(Then(Then(BuildLoad(e, catalog), BuildFeatures),
                   BuildVectorizer), BuildFit), BuildCosine)

(* ----------------------------- title resolver ------------------------- *)

\* re.compile(pattern) succeeds
RegexValid(pattern) == \A i \in DOMAIN pattern : pattern[i] # "("

\* re.search(pattern, s) for a pattern of literals and "."
RegexSearch(pattern, s) ==
    \E off \in 0..(Len(s) - Len(pattern)) :
        \A k \in DOMAIN pattern :
            pattern[k] = "." \/ pattern[k] = s[off + k]

\* Series.str.contains(pat): pat is a regular expression (regex=True)
StrContains(s, pat) == RegexSearch(pat, s)

SetMin(S) == CHOOSE x \in S : \A y \in S : x <= y

\* recommender.py lines 96-103 on a frame that has a title column:
\* 0 stands for "return []"
ExactMatches(rows, title) ==
    {i \in DOMAIN rows : Lower(rows[i].title) = Lower(title)}

FuzzyMatches(rows, title) ==
    {i \in DOMAIN rows : StrContains(Lower(rows[i].title), Lower(title))}

(* ------------------------ recommendation queries ---------------------- *)

\* sorted(enumerate(row), key=score, reverse=True): Python's sort is stable
\* and reverse=True keeps the order of equal keys
SortedByScore(row) ==
    LET before(m, k) == row[m] > row[k] \/ (row[m] = row[k] /\ m < k)
        rank(k) == 1 + Cardinality({m \in DOMAIN row : before(m, k)})
    IN [p \in DOMAIN row |-> CHOOSE k \in DOMAIN row : rank(k) = p]

\* lines 105-121 for the resolved row idx: the result pairs <<index, score>>
RankSimilar(sim, idx, top_n) ==
    LET row == sim[idx]
        order == SortedByScore(row)
        kept == SubSeq(order, 2, Min(top_n + 1, Len(order)))
    IN [p \in DOMAIN kept |-> <<kept[p], row[kept[p]]>>]

\* lines 95-121, the similarity matrix being present
Resolve(e, movie_title, top_n) ==
    LET rows == e.df.rows
        exact == ExactMatches(rows, movie_title)
        fuzzy == FuzzyMatches(rows, movie_title)
    IN IF rows = <<>> THEN {Raised(e)}
       ELSE IF exact # {}
         THEN {ReturnedFor(e, SetMin(exact),
                           RankSimilar(e.cosine_sim.m, SetMin(exact), top_n))}
       ELSE IF ~RegexValid(Lower(movie_title)) THEN {Raised(e)}
       ELSE IF fuzzy = {} THEN {Returned(e, <<>>)}
       ELSE {ReturnedFor(e, SetMin(fuzzy),
                         RankSimilar(e.cosine_sim.m, SetMin(fuzzy), top_n))}

get_recommendations(e, catalog, movie_title, top_n) ==
    LET ensured == IF e.cosine_sim.isNone
                   THEN build_similarity_matrix(e, catalog)
                   ELSE {Returned(e, <<>>)}
        resolve(built) == Resolve(built, movie_title, top_n)
    IN Then(ensured, resolve)

(* ----------------------------- ranking service ------------------------ *)

\* DataFrame.sort_values(column, ascending=False) with the default
\* kind="quicksort", which is not stable: rows of equal key come out in an
\* order the library does not fix.  The set of the orders it may give for
\* the rows S, key being the column.
RECURSIVE SortValuesDesc(_, _)
SortValuesDesc(S, key) ==
    IF S = {} THEN {<<>>}
    ELSE UNION {{<<x>> \o p : p \in SortValuesDesc(S \ {x}, key)}
                : x \in {y \in S : \A z \in S : key[y] >= key[z]}}

\* DataFrame.head(limit)
FrameHead(p, limit) == SubSeq(p, 1, Min(limit, Len(p)))

\* LazyLoad reading the table on every call
LazyLoadAlways(e, catalog) == load_movies_from_db(e, catalog)

\* the lazy load of the ranking methods: if self.df is None
LazyLoad(e, catalog) == IF e.df.isNone THEN load_movies_from_db(e, catalog) ELSE e

\* lines 138-150; the result is the sequence of the rows' indices
search_movies(e, catalog, query, limit) ==
    LET e1 == LazyLoad(e, catalog)
        rows == e1.df.rows
        matches == {i \in DOMAIN rows : StrContains(Lower(rows[i].title), Lower(query))}
        popularity == [i \in DOMAIN rows |-> rows[i].popularity]
    IN IF rows = <<>> \/ ~RegexValid(Lower(query)) THEN {Raised(e1)}
       ELSE {Returned(e1, FrameHead(p, limit)) : p \in SortValuesDesc(matches, popularity)}

\* lines 152-158
get_trending_movies(e, catalog, limit) ==
    LET e1 == LazyLoad(e, catalog)
        rows == e1.df.rows
        popularity == [i \in DOMAIN rows |-> rows[i].popularity]
    IN IF rows = <<>> THEN {Raised(e1)}
       ELSE {Returned(e1, FrameHead(p, limit)) : p \in SortValuesDesc(DOMAIN rows, popularity)}

\* lines 160-168
get_top_rated_movies(e, catalog, limit) ==
    LET e1 == LazyLoad(e, catalog)
        rows == e1.df.rows
        voted == {i \in DOMAIN rows : rows[i].vote_count >= MinVotes}
        vote_average == [i \in DOMAIN rows |-> rows[i].vote_average]
    IN IF rows = <<>> THEN {Raised(e1)}
       ELSE {Returned(e1, FrameHead(p, limit)) : p \in SortValuesDesc(voted, vote_average)}

(* ------------------- SpecEngine: the object, call by call -------------- *)

\* the last call made on the engine and how it ended; rebuilt tells a
\* build that found a similarity matrix in place
Call(op, query, n, rebuilt, o) ==
    [op |-> op, query |-> query, n |-> n, rebuilt |-> rebuilt,
     raised |-> o.raised, idx |-> o.idx, items |-> o.items]

NoCall == Call("none", <<>>, 0, FALSE, Returned(NewEngine, <<>>))

Handlers == 0..MaxRequests

NoRequest == [kind |-> "none", query |-> <<>>, top_n |-> 0]
NoResponse == [status |-> 0, idx |-> 0, items |-> <<>>]

ProgramIdle ==
    /\ pc = [h \in Handlers |-> "new"]
    /\ req = [h \in Handlers |-> NoRequest]
    /\ resp = [h \in Handlers |-> NoResponse]
    /\ arrivedDuringBuild = [h \in Handlers |-> FALSE]
    /\ atBuildStart = NewEngine

programVars == <<pc, req, resp, arrivedDuringBuild, atBuildStart>>

InitEngine ==
    /\ db \in Catalogs
    /\ SetEngineInit
    /\ ProgramIdle
    /\ last = NoCall

EngBuild ==
    /\ \E o \in build_similarity_matrix(Engine, db) :
          /\ SetEngine(o.e)
          /\ last' = Call("build", <<>>, 0, ~cosine_sim.isNone, o)
    /\ UNCHANGED <<db, programVars>>

EngRecommend ==
    /\ \E q \in Queries, n \in TopNs :
          \E o \in get_recommendations(Engine, db, q, n) :
             /\ SetEngine(o.e)
             /\ last' = Call("recommend", q, n, FALSE, o)
    /\ UNCHANGED <<db, programVars>>

EngSearch ==
    /\ \E q \in Queries, n \in TopNs :
          \E o \in search_movies(Engine, db, q, n) :
             /\ SetEngine(o.e)
             /\ last' = Call("search", q, n, FALSE, o)
    /\ UNCHANGED <<db, programVars>>

EngTrending ==
    /\ \E n \in TopNs :
          \E o \in get_trending_movies(Engine, db, n) :
             /\ SetEngine(o.e)
             /\ last' = Call("trending", <<>>, n, FALSE, o)
    /\ UNCHANGED <<db, programVars>>

EngTopRated ==
    /\ \E n \in TopNs :
          \E o \in get_top_rated_movies(Engine, db, n) :
             /\ SetEngine(o.e)
             /\ last' = Call("top_rated", <<>>, n, FALSE, o)
    /\ UNCHANGED <<db, programVars>>

\* another writer of the movies table adds a row
EngCatalogChange ==
    /\ Len(db) < MaxMovies
    /\ \E m \in MoviePool : db' = Append(db, m)
    /\ last' = Call("catalog", <<>>, 0, FALSE, Returned(NewEngine, <<>>))
    /\ UNCHANGED <<engineVars, programVars>>

NextEngine ==
    \/ EngBuild
    \/ EngRecommend
    \/ EngSearch
    \/ EngTrending
    \/ EngTopRated
    \/ EngCatalogChange

SpecEngine == InitEngine /\ [][NextEngine]_vars

(* ---------------- Spec: the served program, step by step -------------- *)

\* what the served program's table holds
ProgramCatalogs ==
    {<<>>, <<MovieAb>>, <<MovieBa>>, <<MovieBa, MovieAb>>, <<MovieAb, MovieBa>>}

\* RecommendationRequest.top_n when the body gives none
DefaultTopN == 10

\* the requests of the routes that reach the engine
Requests ==
    {[kind |-> "recommend", query |-> q, top_n |-> DefaultTopN] : q \in {<<"b", "a">>, <<"x">>}}
    \cup {[kind |-> k, query |-> <<"a">>, top_n |-> RouteLimit] : k \in {"search"}}
    \cup {[kind |-> k, query |-> <<>>, top_n |-> RouteLimit] : k \in {"trending", "top_rated"}}

BuildPcs == {"b_load", "b_features", "b_vectorizer", "b_fit", "b_cosine", "b_raised"}

BuildInFlight == \E h \in Handlers : pc[h] \in BuildPcs

\* LoopFree with the handlers run on a thread pool (routes declared def)
LoopFreeThreaded == TRUE

\* the event loop runs nothing: lifespan and every route are async def and
\* await nothing while they use the engine, so a handler runs to its end
\* before the next one starts
LoopFree == \A h \in Handlers : pc[h] \in {"new", "queued", "done"}

Respond(h, status, o) ==
    resp' = [resp EXCEPT ![h] = [status |-> status, idx |-> o.idx, items |-> o.items]]

InitProgram ==
    /\ db \in ProgramCatalogs
    /\ SetEngineInit
    /\ pc = [h \in Handlers |-> IF h = 0 THEN "populate" ELSE "new"]
    /\ req = [h \in Handlers |-> NoRequest]
    /\ resp = [h \in Handlers |-> NoResponse]
    /\ arrivedDuringBuild = [h \in Handlers |-> FALSE]
    /\ atBuildStart = NewEngine
    /\ last = NoCall

\* MovieService.populate_database, as lifespan calls it: a table with rows
\* is left alone; an empty one is filled from TMDb, or stays empty when the
\* fetch raises (lifespan prints a warning and goes on)
Populate ==
    /\ pc[0] = "populate"
    /\ \E fetched \in ProgramCatalogs :
          db' = IF db = <<>> THEN fetched ELSE db
    /\ pc' = [pc EXCEPT ![0] = "b_load"]
    /\ atBuildStart' = Engine
    /\ UNCHANGED <<engineVars, req, resp, arrivedDuringBuild, last>>

\* one statement of build_similarity_matrix, run by handler h
BuildStatement(h, at, outcomes, next) ==
    /\ pc[h] = at
    /\ \E o \in outcomes :
          /\ SetEngine(o.e)
          /\ pc' = [pc EXCEPT ![h] = IF o.raised THEN "b_raised" ELSE next]
    /\ atBuildStart' = IF next \in BuildPcs THEN atBuildStart ELSE NewEngine
    /\ UNCHANGED <<db, req, resp, arrivedDuringBuild, last>>

BuildLoadStep(h) ==
    BuildStatement(h, "b_load", BuildLoad(Engine, db), "b_features")

BuildFeaturesStep(h) ==
    BuildStatement(h, "b_features", BuildFeatures(Engine), "b_vectorizer")

BuildVectorizerStep(h) ==
    BuildStatement(h, "b_vectorizer", BuildVectorizer(Engine), "b_fit")

BuildFitStep(h) ==
    BuildStatement(h, "b_fit", BuildFit(Engine), "b_cosine")

\* line 78, and the return to the caller: lifespan goes on to serve,
\* get_recommendations to its line 95
BuildCosineStep(h) ==
    BuildStatement(h, "b_cosine", BuildCosine(Engine),
                   IF h = 0 THEN "done" ELSE "r_resolve")

\* the build raised: lifespan catches it and prints a warning (main.py
\* lines 31-32); in a request it leaves get_recommendations and the route
\* answers 500 (movie_routes.py lines 135-136)
BuildRaisedStep(h) ==
    /\ pc[h] = "b_raised"
    /\ pc' = [pc EXCEPT ![h] = "done"]
    /\ Respond(h, IF h = 0 THEN 0 ELSE 500, Raised(Engine))
    /\ atBuildStart' = NewEngine
    /\ UNCHANGED <<db, engineVars, req, arrivedDuringBuild, last>>

\* a request reaches the server, which serves once lifespan has yielded
Arrive(h) ==
    /\ h # 0
    /\ pc[h] = "new"
    /\ pc[0] = "done"
    /\ \A g \in 1..(h - 1) : pc[g] # "new"
    /\ \E r \in Requests : req' = [req EXCEPT ![h] = r]
    /\ pc' = [pc EXCEPT ![h] = "queued"]
    /\ arrivedDuringBuild' = [arrivedDuringBuild EXCEPT ![h] = BuildInFlight]
    /\ UNCHANGED <<db, engineVars, resp, atBuildStart, last>>

\* the event loop starts the request's handler
Dispatch(h) ==
    /\ pc[h] = "queued"
    /\ LoopFree
    /\ pc' = [pc EXCEPT ![h] = IF req[h].kind = "recommend" THEN "r_check" ELSE "q_run"]
    /\ UNCHANGED <<db, engineVars, req, resp, arrivedDuringBuild, atBuildStart, last>>

\* recommender.py lines 92-93
RecommendCheck(h) ==
    /\ pc[h] = "r_check"
    /\ pc' = [pc EXCEPT ![h] = IF cosine_sim.isNone THEN "b_load" ELSE "r_resolve"]
    /\ atBuildStart' = IF cosine_sim.isNone THEN Engine ELSE NewEngine
    /\ UNCHANGED <<db, engineVars, req, resp, arrivedDuringBuild, last>>

\* recommender.py lines 95-121 and the route around them: an empty list
\* raises HTTPException(404) inside the route's try, which its
\* except Exception turns into a 500, as it does any exception
RecommendResolve(h) ==
    /\ pc[h] = "r_resolve"
    /\ \E o \in Resolve(Engine, req[h].query, req[h].top_n) :
          Respond(h, IF o.raised \/ o.items = <<>> THEN 500 ELSE 200, o)
    /\ pc' = [pc EXCEPT ![h] = "done"]
    /\ UNCHANGED <<db, engineVars, req, arrivedDuringBuild, atBuildStart, last>>

\* the engine call of a ranking route
RankingOutcomes(r) ==
    CASE r.kind = "search" -> search_movies(Engine, db, r.query, r.top_n)
      [] r.kind = "trending" -> get_trending_movies(Engine, db, r.top_n)
      [] r.kind = "top_rated" -> get_top_rated_movies(Engine, db, r.top_n)

\* movie_routes.py lines 80-96: an exception of the engine is a 500
RankingRun(h) ==
    /\ pc[h] = "q_run"
    /\ \E o \in RankingOutcomes(req[h]) :
          /\ SetEngine(o.e)
          /\ Respond(h, IF o.raised THEN 500 ELSE 200, o)
    /\ pc' = [pc EXCEPT ![h] = "done"]
    /\ UNCHANGED <<db, req, arrivedDuringBuild, atBuildStart, last>>

\* another writer of the movies table adds a row
ProgramCatalogChange ==
    /\ \E m \in MoviePool :
          /\ Append(db, m) \in ProgramCatalogs
          /\ db' = Append(db, m)
    /\ UNCHANGED <<engineVars, programVars, last>>

Next ==
    \/ Populate
    \/ ProgramCatalogChange
    \/ \E h \in Handlers :
          \/ BuildLoadStep(h)
          \/ BuildFeaturesStep(h)
          \/ BuildVectorizerStep(h)
          \/ BuildFitStep(h)
          \/ BuildCosineStep(h)
          \/ BuildRaisedStep(h)
          \/ Arrive(h)
          \/ Dispatch(h)
          \/ RecommendCheck(h)
          \/ RecommendResolve(h)
          \/ RankingRun(h)

Spec == InitProgram /\ [][Next]_vars

(* ------------------------ claims on SpecEngine ------------------------ *)

RecommendReturned == last.op = "recommend" /\ ~last.raised /\ last.idx # 0

ResultRows == {last.items[p][1] : p \in DOMAIN last.items}

\* C1: a recommend call that resolved its title to row idx returns a list
\* that does not contain row idx.
C1_NeverRecommendsItself == RecommendReturned => last.idx \notin ResultRows

\* s contains pat as a literal substring
IsSubstring(pat, s) ==
    \E off \in 0..(Len(s) - Len(pat)) : \A k \in DOMAIN pat : pat[k] = s[off + k]

\* the row the title resolver is specified to give (0: unresolved)
SpecifiedRow(rows, title) ==
    LET exact == {i \in DOMAIN rows : Lower(rows[i].title) = Lower(title)}
        contains == {i \in DOMAIN rows : IsSubstring(Lower(title), Lower(rows[i].title))}
    IN IF exact # {} THEN SetMin(exact)
       ELSE IF contains # {} THEN SetMin(contains)
       ELSE 0

\* C2: with a similarity matrix in place, recommend does not raise and
\* resolves its title to the lowest row of equal title (compared without
\* case), else to the lowest row whose title contains it literally, else to
\* no row, and then it returns the empty list.
C2_ResolvesExactThenSubstring ==
    (last.op = "recommend" /\ ~cosine_sim.isNone) =>
        /\ ~last.raised
        /\ last.idx = SpecifiedRow(df.rows, last.query)
        /\ (last.idx = 0 => last.items = <<>>)

\* the rows other than r, by score descending, equal scores by ascending
\* index
OthersRanked(row, r) ==
    LET others == DOMAIN row \ {r}
        before(m, k) == row[m] > row[k] \/ (row[m] = row[k] /\ m < k)
        rank(k) == 1 + Cardinality({m \in others : before(m, k)})
    IN [p \in 1..Cardinality(others) |-> CHOOSE k \in others : rank(k) = p]

\* C3: a recommend call that resolved its title to row r returns the first
\* min(top_n, N - 1) of the other rows ranked by their score in r's row of
\* the similarity matrix, each with that score.
C3_ReturnsTopOfTheOthers ==
    RecommendReturned =>
        LET row == cosine_sim.m[last.idx]
            ranked == OthersRanked(row, last.idx)
            kept == SubSeq(ranked, 1, Min(last.n, Len(ranked)))
        IN last.items = [p \in DOMAIN kept |-> <<kept[p], row[kept[p]]>>]

\* C6: when recommend or a build has returned, the frame and the matrix it
\* left are those of the catalog as it is: a call that found the matrix
\* stale rebuilt it, and a rebuild read the catalog again.
C6_AnswersFromCurrentCatalog ==
    (last.op \in {"recommend", "build"} /\ ~last.raised /\ ~cosine_sim.isNone) =>
        df.rows = db

\* C8: on an empty catalog trending, search, top-rated and recommend return
\* the empty list and do not raise.
C8_EmptyCatalogGivesEmptyLists ==
    (db = <<>> /\ last.op \in {"trending", "search", "top_rated", "recommend"}) =>
        (~last.raised /\ last.items = <<>>)

\* C9: while a similarity matrix is present, the vector matrix, the
\* similarity matrix (rows and columns) and the frame the titles are
\* resolved in all have the same number of rows.
C9_DimensionsAgree ==
    ~cosine_sim.isNone =>
        /\ ~df.isNone /\ ~tfidf_matrix.isNone
        /\ Len(tfidf_matrix.m) = Len(df.rows)
        /\ Len(cosine_sim.m) = Len(df.rows)
        /\ \A i \in DOMAIN cosine_sim.m : Len(cosine_sim.m[i]) = Len(df.rows)

\* a ranking query ran, with the matrix in place, after the catalog grew
C9_QueriedAfterCatalogGrew ==
    /\ ~cosine_sim.isNone
    /\ Len(db) > Len(df.rows)
    /\ last.op \in {"search", "trending", "top_rated"}
    /\ ~last.raised

\* C10: a build that finds a similarity matrix in place does not raise and
\* leaves the frame with its content documents, the vectorizer, the vector
\* matrix and the similarity matrix as they were.
C10_RebuildIdempotent ==
    [][(last'.op = "build" /\ last'.rebuilt) =>
          /\ ~last'.raised
          /\ df' = df
          /\ vectorizer' = vectorizer
          /\ tfidf_matrix' = tfidf_matrix
          /\ cosine_sim' = cosine_sim]_vars

\* a build ran on an engine that had a matrix, and returned
C10_Rebuilt == last.op = "build" /\ last.rebuilt /\ ~last.raised /\ Len(df.rows) > 1

(* --------------------------- claims on Spec ---------------------------- *)

Building == {h \in Handlers : pc[h] \in BuildPcs}

OneGeneration ==
    \/ df.isNone /\ vectorizer.isNone /\ tfidf_matrix.isNone /\ cosine_sim.isNone
    \/ /\ ~df.isNone /\ ~vectorizer.isNone /\ ~tfidf_matrix.isNone /\ ~cosine_sim.isNone
       /\ df.hasFeatures
       /\ vectorizer.fitted
       /\ Len(tfidf_matrix.m) = Len(df.rows)
       /\ Len(cosine_sim.m) = Len(df.rows)

\* C5: whenever a handler can start, and so read the engine, the frame, the
\* vectorizer, the vector matrix and the similarity matrix it reads are of
\* one generation
C5_ReadersSeeOneGeneration ==
    (pc[0] = "done" /\ LoopFree) => OneGeneration

\* C7: when a build has raised, the frame, the vectorizer, the vector matrix
\* and the similarity matrix are what they were when that build started
C7_FailedBuildLeavesFields ==
    \A h \in Handlers : pc[h] = "b_raised" => Engine = atBuildStart

(* ------------------- claims on the ranking queries --------------------- *)

\* a before b in the order of the triples: first component, then second,
\* then third, each descending
TripleBefore(a, b) ==
    \/ a[1] > b[1]
    \/ a[1] = b[1] /\ a[2] > b[2]
    \/ a[1] = b[1] /\ a[2] = b[2] /\ a[3] > b[3]

\* the rows S in the one order in which the keys descend
RECURSIVE OrderedDesc(_, _)
OrderedDesc(S, key) ==
    IF S = {} THEN <<>>
    ELSE LET x == CHOOSE y \in S : \A z \in S \ {y} : TripleBefore(key[y], key[z])
         IN <<x>> \o OrderedDesc(S \ {x}, key)

\* what topRated is to return over the rows: the rows of MinVotes votes or
\* more, by average rating descending, then rating count descending, then
\* index ascending
TopRatedOrder(rows) ==
    OrderedDesc({i \in DOMAIN rows : rows[i].vote_count >= MinVotes},
                [i \in DOMAIN rows |-> <<rows[i].vote_average, rows[i].vote_count, 0 - i>>])

\* C11: a top-rated call on a frame with rows returns the first `limit` of
\* the rows with MinVotes votes or more, ordered by average rating
\* descending, then rating count descending, then ascending index
C11_TopRatedOrdered ==
    (last.op = "top_rated" /\ df.rows # <<>>) =>
        /\ ~last.raised
        /\ last.items = FrameHead(TopRatedOrder(df.rows), last.n)

\* what trending and search are to return over the rows S of the frame: by
\* popularity descending, rows of equal popularity by ascending index
PopularityOrder(rows, S) ==
    OrderedDesc(S, [i \in DOMAIN rows |-> <<rows[i].popularity, 0, 0 - i>>])

\* C12: a trending call on a frame with rows returns the first `limit` of
\* all rows ordered by popularity descending, rows of equal popularity in
\* ascending index order
C12_TrendingOrdered ==
    (last.op = "trending" /\ df.rows # <<>>) =>
        /\ ~last.raised
        /\ last.items = FrameHead(PopularityOrder(df.rows, DOMAIN df.rows), last.n)

\* the rows whose title contains the query as a literal substring, case
\* apart
TitleMatches(rows, query) ==
    {i \in DOMAIN rows : IsSubstring(Lower(query), Lower(rows[i].title))}

\* C13: a search call on a frame with rows does not raise, whatever the
\* query, and returns the first `limit` of the rows whose title contains
\* the query literally, case apart, ordered by popularity descending, rows
\* of equal popularity in ascending index order (none matching: empty)
C13_SearchLiteralOrdered ==
    (last.op = "search" /\ df.rows # <<>>) =>
        /\ ~last.raised
        /\ last.items = FrameHead(PopularityOrder(df.rows, TitleMatches(df.rows, last.query)),
                                  last.n)

(* -------------------- claim on the feature builder --------------------- *)

\* the document the feature builder is to give: the genres three times,
\* the synopsis, the cast twice, the director, every genre, word and name a
\* token of its own, and nothing for a field that is absent or empty
SpecifiedDocument(movie) ==
    Join(movie.genres) \o Join(movie.genres) \o Join(movie.genres)
    \o Join(movie.overview)
    \o Join(movie.actors) \o Join(movie.actors)
    \o (IF movie.director # "" THEN Join(<<movie.director>>) ELSE <<>>)

\* C14: every document of the content_features column is the specified
\* document of its row: the repetitions are separate tokens, never fused
C14_FeaturesRepeatTokens ==
    df.hasFeatures =>
        \A i \in DOMAIN df.rows :
            df.content_features[i] = SpecifiedDocument(df.rows[i])

====
